---- MODULE Spec2Model ----
(***************************************************************************)
(* Model of mopidy/audio/scan.py.                                          *)
(*                                                                         *)
(* Spec      the Scanner: scan() = _setup, _collect, _query_duration and   *)
(*           the _reset of the finally clause, one step per statement,     *)
(*           interleaved with the pipeline's threads posting messages on   *)
(*           the bus and with the wall clock advancing.                    *)
(* SpecLive  the Scanner on a pipeline that may post without end, with    *)
(*           weak fairness of the statements of scan() and of the clock.   *)
(* SpecNorm  the pure functions _artists and tags_to_track applied to a    *)
(*           tag dictionary drawn from a bounded set.                      *)
(*                                                                         *)
(* Python values are tagged records ([t |-> "None"], [t |-> "int", ...])   *)
(* so that values of different Python types can be told apart.             *)
(***************************************************************************)
EXTENDS Integers, Sequences, FiniteSets, TLC

(***************************************************************************)
(* Bounds of the model.                                                    *)
(***************************************************************************)
\* Largest timeout (in ms) a Scanner is constructed with.
MaxTimeout == 2
\* Most messages the pipeline posts on the bus during one scan.
MaxPosts == 3
\* Most tag names in a dictionary handed to tags_to_track.
MaxKeys == 2
\* The most messages pending on the bus of a pipeline that never stops posting.
MaxBus == 2

(***************************************************************************)
(* Python values.                                                          *)
(***************************************************************************)
PyNone == [t |-> "None"]
PyInt(n) == [t |-> "int", v |-> n]
PyStr(s) == [t |-> "str", v |-> s]
PyList(s) == [t |-> "list", v |-> s]
PyDict(d) == [t |-> "dict", v |-> d]

\* The empty dict {}.
EmptyDict == << >>

\* dict.update(other): every key of other replaces the entry of d.
DictUpdate_Merging(d, other) ==
    [k \in DOMAIN d \cup DOMAIN other |->
        IF k \in DOMAIN other
        THEN (IF k \in DOMAIN d THEN d[k] \o other[k] ELSE other[k])
        ELSE d[k]]

DictUpdate(d, other) ==
    [k \in DOMAIN d \cup DOMAIN other |->
        IF k \in DOMAIN other THEN other[k] ELSE d[k]]

(***************************************************************************)
(* Text of error messages: sequences of characters.                        *)
(***************************************************************************)
Digits == <<"0", "1", "2", "3", "4", "5", "6", "7", "8", "9">>

RECURSIVE FormatD(_)
\* '%d' % n for n >= 0: the decimal digits of n.
FormatD(n) ==
    IF n < 10 THEN <<Digits[n + 1]>>
    ELSE FormatD(n \div 10) \o <<Digits[(n % 10) + 1]>>

\* Whether the character sequence part occurs in text.
Contains(text, part) ==
    \E i \in 1..(Len(text) - Len(part) + 1) :
        SubSeq(text, i, i + Len(part) - 1) = part

(***************************************************************************)
(* Bus messages.                                                           *)
(***************************************************************************)
\* The errors (GError values) an error message may carry.
GErrors == {"gerror1", "gerror2"}

\* The tag lists a tag message may carry.
TagLists ==
    { [title |-> [t |-> "value", v |-> "a"]],
      [artist |-> [t |-> "value", v |-> "x"],
       title |-> [t |-> "list", v |-> <<"b", "c">>]] }

\* message.src: the top-level pipeline or one of its elements.
Sources == {"pipe", "uribin"}

Messages ==
    [type : {"ERROR"}, gerror : GErrors]
    \cup [type : {"EOS"}]
    \cup [type : {"ASYNC_DONE"}, src : Sources]
    \cup [type : {"TAG"}, taglist : TagLists]
    \cup [type : {"OTHER"}]

NoMessage == [type |-> "none"]

\* encoding.locale_decode(gerror): the text of the error, decoded.
locale_decode(gerror) == [t |-> "decoded", of |-> gerror]

\* utils.convert_taglist(taglist): the tag list as a dict of lists; the value
\* of a tag that holds a single value becomes a list of one.
convert_taglist(taglist) ==
    [k \in DOMAIN taglist |->
        IF taglist[k].t = "list" THEN taglist[k].v ELSE <<taglist[k].v>>]

\* exceptions.ScannerError(message)
ScannerError(message) == [t |-> "ScannerError", message |-> message]

NoExc == [t |-> "none"]

\* 'Timeout after %dms' % timeout_ms
TimeoutText_NoValue(ms) ==
    [t |-> "text", chars |-> <<"T", "i", "m", "e", "o", "u", "t">>]

TimeoutText(ms) ==
    [t |-> "text",
     chars |-> <<"T", "i", "m", "e", "o", "u", "t", " ",
                 "a", "f", "t", "e", "r", " ">> \o FormatD(ms) \o <<"m", "s">>]

(***************************************************************************)
(* The duration query.                                                     *)
(***************************************************************************)
\* gst.MSECOND: nanoseconds in a millisecond.
MSECOND == 1000000

QueryError == [t |-> "QueryError"]
NotQueried == [t |-> "notqueried"]

\* What pipe.query_duration(gst.FORMAT_TIME, None) may do: raise QueryError
\* or answer a raw duration in nanoseconds (-1 when the duration is unknown).
RawDurations == {0 - MSECOND, -1, 0, 1, MSECOND - 1, MSECOND, 2 * MSECOND + 1}

QueryOutcomes == {QueryError} \cup {PyInt(n) : n \in RawDurations}

_query_duration_ZeroUnknown(q) ==
    IF q.t = "QueryError" THEN PyNone
    ELSE IF q.v <= 0 THEN PyNone
    ELSE PyInt(q.v \div MSECOND)

_query_duration(q) ==
    IF q.t = "QueryError" THEN PyNone
    ELSE IF q.v < 0 THEN PyNone
    ELSE PyInt(q.v \div MSECOND)

(***************************************************************************)
(* The Scanner.                                                            *)
(***************************************************************************)
VARIABLES
    timeout_ms,   \* self._timeout_ms
    flushing,     \* whether self._bus is flushing
    bus,          \* the messages pending on self._bus, oldest first
    pipe_state,   \* the state last requested of self._pipe
    uri,          \* the uri property of self._uribin
    pc,           \* the statement scan() is at
    scan_uri,     \* scan's argument
    result,       \* _setup's local: what set_state(PAUSED) returned
    elapsed,      \* time.time() - start, in ms, while _collect runs
    ctags,        \* _collect's local tags
    message,      \* _collect's local message
    tags,         \* scan's local tags
    duration,     \* scan's local duration
    exc,          \* the exception propagating out of the try block
    outcome,      \* what scan() returned or raised to its caller
    reset_calls,  \* history: calls of _reset in this scan
    consumed,     \* history: the messages popped in this scan
    posted,       \* history: how many messages were posted in this scan
    query_raw,    \* history: what the duration query of this scan did
    posted_log,   \* history: the messages posted in this scan, oldest first
    reset_result, \* history: what set_state(NULL) returned in this scan
    ntags,        \* the tag dictionary handed to tags_to_track and _artists
    track,        \* what the last call of tags_to_track returned or raised
    artists_call  \* the last call of _artists: its arguments and result

scanVars ==
    <<timeout_ms, flushing, bus, pipe_state, uri, pc, scan_uri, result,
      elapsed, ctags, message, tags, duration, exc, outcome, reset_calls,
      consumed, posted, query_raw, posted_log, reset_result>>

normVars == <<ntags, track, artists_call>>

vars ==
    <<timeout_ms, flushing, bus, pipe_state, uri, pc, scan_uri, result,
      elapsed, ctags, message, tags, duration, exc, outcome, reset_calls,
      consumed, posted, query_raw, posted_log, reset_result, ntags, track,
      artists_call>>

URIs == {"file:///a.mp3"}

Timeouts == 0..MaxTimeout

StateChangeReturns == {"SUCCESS", "ASYNC", "NO_PREROLL", "FAILURE"}

NoOutcome == [kind |-> "none"]

NotCalled == [t |-> "notcalled"]

CollectPcs == {"c78", "c79", "c81", "c83"}

\* Scanner.__init__: the bus starts flushing, the pipeline in its NULL state.
Init ==
    /\ timeout_ms \in Timeouts
    /\ flushing = TRUE
    /\ bus = << >>
    /\ pipe_state = "NULL"
    /\ uri = "none"
    /\ pc = "idle"
    /\ scan_uri = "none"
    /\ result = "none"
    /\ elapsed = 0
    /\ ctags = EmptyDict
    /\ message = NoMessage
    /\ tags = PyNone
    /\ duration = PyNone
    /\ exc = NoExc
    /\ outcome = NoOutcome
    /\ reset_calls = 0
    /\ consumed = << >>
    /\ posted = 0
    /\ posted_log = << >>
    /\ reset_result = "none"
    /\ query_raw = NotQueried
    /\ ntags = EmptyDict
    /\ track = NotCalled
    /\ artists_call = NotCalled

\* scan(uri) is called: tags, duration = None, None and the try block begins.
Scan(u) ==
    /\ pc \in {"idle", "returned"}
    /\ pc' = "s64"
    /\ scan_uri' = u
    /\ tags' = PyNone
    /\ duration' = PyNone
    /\ exc' = NoExc
    /\ outcome' = NoOutcome
    /\ reset_calls' = 0
    /\ consumed' = << >>
    /\ posted' = 0
    /\ posted_log' = << >>
    /\ reset_result' = "none"
    /\ query_raw' = NotQueried
    /\ UNCHANGED <<timeout_ms, flushing, bus, pipe_state, uri, result, elapsed,
                   ctags, message, normVars>>

\* _setup: self._pipe.set_state(gst.STATE_READY)
SetupReady ==
    /\ pc = "s64"
    /\ pipe_state' = "READY"
    /\ pc' = "s65"
    /\ UNCHANGED <<timeout_ms, flushing, bus, uri, scan_uri, result, elapsed,
                   ctags, message, tags, duration, exc, outcome, reset_calls,
                   consumed, posted, query_raw, normVars,
                   posted_log, reset_result>>

\* _setup: self._uribin.set_property(b'uri', uri)
SetupUri ==
    /\ pc = "s65"
    /\ uri' = scan_uri
    /\ pc' = "s66"
    /\ UNCHANGED <<timeout_ms, flushing, bus, pipe_state, scan_uri, result,
                   elapsed, ctags, message, tags, duration, exc, outcome,
                   reset_calls, consumed, posted, query_raw, normVars,
                   posted_log, reset_result>>

\* _setup: self._bus.set_flushing(False)
SetupUnflush ==
    /\ pc = "s66"
    /\ flushing' = FALSE
    /\ pc' = "s67"
    /\ UNCHANGED <<timeout_ms, bus, pipe_state, uri, scan_uri, result, elapsed,
                   ctags, message, tags, duration, exc, outcome, reset_calls,
                   consumed, posted, query_raw, normVars,
                   posted_log, reset_result>>

\* _setup: result = self._pipe.set_state(gst.STATE_PAUSED)
SetupPaused ==
    /\ pc = "s67"
    /\ pipe_state' = "PAUSED"
    /\ \E r \in StateChangeReturns : result' = r
    /\ pc' = "s68"
    /\ UNCHANGED <<timeout_ms, flushing, bus, uri, scan_uri, elapsed, ctags,
                   message, tags, duration, exc, outcome, reset_calls,
                   consumed, posted, query_raw, normVars,
                   posted_log, reset_result>>

\* _setup: if result == gst.STATE_CHANGE_NO_PREROLL: set_state(STATE_PLAYING)
SetupPlaying_Always ==
    /\ pc = "s68"
    /\ pipe_state' = "PLAYING"
    /\ result' = "none"
    /\ pc' = "c74"
    /\ UNCHANGED <<timeout_ms, flushing, bus, uri, scan_uri, elapsed, ctags,
                   message, tags, duration, exc, outcome, reset_calls,
                   consumed, posted, query_raw, normVars,
                   posted_log, reset_result>>

SetupPlaying ==
    /\ pc = "s68"
    /\ pipe_state' = IF result = "NO_PREROLL" THEN "PLAYING" ELSE pipe_state
    /\ result' = "none"
    /\ pc' = "c74"
    /\ UNCHANGED <<timeout_ms, flushing, bus, uri, scan_uri, elapsed, ctags,
                   message, tags, duration, exc, outcome, reset_calls,
                   consumed, posted, query_raw, normVars,
                   posted_log, reset_result>>

\* _collect: start = time.time(); tags = {}
CollectStart ==
    /\ pc = "c74"
    /\ elapsed' = 0
    /\ ctags' = EmptyDict
    /\ pc' = "c78"
    /\ UNCHANGED <<timeout_ms, flushing, bus, pipe_state, uri, scan_uri,
                   result, message, tags, duration, exc, outcome, reset_calls,
                   consumed, posted, query_raw, normVars,
                   posted_log, reset_result>>

\* Where control goes when the try block raises: the finally clause.
AfterRaise_NoFinally == "f60"

AfterRaise_QueryFirst == "q56"

AfterRaise == "r58"

\* _collect: while time.time() - start < timeout_s
LoopTest_NoDeadline == TRUE

LoopTest_Inclusive == elapsed <= timeout_ms

LoopTest == elapsed < timeout_ms

\* _collect leaves: its locals go out of scope.
LeaveCollect ==
    /\ elapsed' = 0
    /\ ctags' = EmptyDict
    /\ message' = NoMessage

\* _collect: the loop test; when it fails, raise ScannerError('Timeout ...').
CollectLoop ==
    /\ pc = "c78"
    /\ IF LoopTest
       THEN /\ pc' = "c79"
            /\ UNCHANGED <<exc, elapsed, ctags, message>>
       ELSE /\ exc' = ScannerError(TimeoutText(timeout_ms))
            /\ pc' = AfterRaise
            /\ LeaveCollect
    /\ UNCHANGED <<timeout_ms, flushing, bus, pipe_state, uri, scan_uri,
                   result, tags, duration, outcome, reset_calls, consumed,
                   posted, query_raw, normVars,
                   posted_log, reset_result>>

\* _collect: if not self._bus.have_pending(): continue
CollectPending ==
    /\ pc = "c79"
    /\ pc' = IF bus = << >> THEN "c78" ELSE "c81"
    /\ UNCHANGED <<timeout_ms, flushing, bus, pipe_state, uri, scan_uri,
                   result, elapsed, ctags, message, tags, duration, exc,
                   outcome, reset_calls, consumed, posted, query_raw, normVars,
                   posted_log, reset_result>>

\* _collect: message = self._bus.pop()
CollectPop_Newest ==
    /\ pc = "c81"
    /\ bus # << >>
    /\ message' = bus[Len(bus)]
    /\ bus' = SubSeq(bus, 1, Len(bus) - 1)
    /\ consumed' = Append(consumed, bus[Len(bus)])
    /\ pc' = "c83"
    /\ UNCHANGED <<timeout_ms, flushing, pipe_state, uri, scan_uri, result,
                   elapsed, ctags, tags, duration, exc, outcome, reset_calls,
                   posted, query_raw, normVars,
                   posted_log, reset_result>>

CollectPop ==
    /\ pc = "c81"
    /\ bus # << >>
    /\ message' = Head(bus)
    /\ bus' = Tail(bus)
    /\ consumed' = Append(consumed, Head(bus))
    /\ pc' = "c83"
    /\ UNCHANGED <<timeout_ms, flushing, pipe_state, uri, scan_uri, result,
                   elapsed, ctags, tags, duration, exc, outcome, reset_calls,
                   posted, query_raw, normVars,
                   posted_log, reset_result>>

\* What the dispatch on message.type does: "raise", "return" or "continue".
Dispatch_AnyAsyncDone(m) ==
    CASE m.type = "ERROR" -> "raise"
      [] m.type = "EOS" -> "return"
      [] m.type = "ASYNC_DONE" -> "return"
      [] OTHER -> "continue"

Dispatch_TagEnds(m) ==
    CASE m.type = "ERROR" -> "raise"
      [] m.type = "EOS" -> "return"
      [] m.type = "ASYNC_DONE" -> IF m.src = "pipe" THEN "return" ELSE "continue"
      [] m.type = "TAG" -> "return"
      [] OTHER -> "continue"

Dispatch_ErrorIgnored(m) ==
    CASE m.type = "ERROR" -> "continue"
      [] m.type = "EOS" -> "return"
      [] m.type = "ASYNC_DONE" -> IF m.src = "pipe" THEN "return" ELSE "continue"
      [] OTHER -> "continue"

Dispatch_EosIgnored(m) ==
    CASE m.type = "ERROR" -> "raise"
      [] m.type = "EOS" -> "continue"
      [] m.type = "ASYNC_DONE" -> IF m.src = "pipe" THEN "return" ELSE "continue"
      [] OTHER -> "continue"

Dispatch(m) ==
    CASE m.type = "ERROR" -> "raise"
      [] m.type = "EOS" -> "return"
      [] m.type = "ASYNC_DONE" -> IF m.src = "pipe" THEN "return" ELSE "continue"
      [] OTHER -> "continue"

\* _collect: tags.update(utils.convert_taglist(message.parse_tag()))
CollectTags(t, m) ==
    IF m.type = "TAG" THEN DictUpdate(t, convert_taglist(m.taglist)) ELSE t

\* _collect: the if/elif chain on message.type.
CollectDispatch ==
    /\ pc = "c83"
    /\ \/ /\ Dispatch(message) = "raise"
          /\ exc' = ScannerError(locale_decode(message.gerror))
          /\ pc' = AfterRaise
          /\ LeaveCollect
          /\ UNCHANGED tags
       \/ /\ Dispatch(message) = "return"
          /\ tags' = PyDict(ctags)
          /\ pc' = "q56"
          /\ LeaveCollect
          /\ UNCHANGED exc
       \/ /\ Dispatch(message) = "continue"
          /\ ctags' = CollectTags(ctags, message)
          /\ message' = NoMessage
          /\ pc' = "c78"
          /\ UNCHANGED <<exc, tags, elapsed>>
    /\ UNCHANGED <<timeout_ms, flushing, bus, pipe_state, uri, scan_uri,
                   result, duration, outcome, reset_calls, consumed, posted,
                   query_raw, normVars,
                   posted_log, reset_result>>

\* scan: duration = self._query_duration()
QueryDuration ==
    /\ pc = "q56"
    /\ \E q \in QueryOutcomes :
          /\ query_raw' = q
          /\ duration' = _query_duration(q)
    /\ pc' = "r58"
    /\ UNCHANGED <<timeout_ms, flushing, bus, pipe_state, uri, scan_uri,
                   result, elapsed, ctags, message, tags, exc, outcome,
                   reset_calls, consumed, posted, normVars,
                   posted_log, reset_result>>

\* finally: self._reset(): set_flushing(True) drops what is pending on the
\* bus, set_state(gst.STATE_NULL); what set_state returns is not looked at.
Reset_NoFlush ==
    /\ pc = "r58"
    /\ pipe_state' = "NULL"
    /\ \E r \in StateChangeReturns : reset_result' = r
    /\ reset_calls' = reset_calls + 1
    /\ pc' = "f60"
    /\ UNCHANGED <<timeout_ms, flushing, bus, uri, scan_uri, result, elapsed,
                   ctags, message, tags, duration, exc, outcome, consumed,
                   posted, query_raw, normVars, posted_log>>

Reset_RaisesOnFailure ==
    /\ pc = "r58"
    /\ flushing' = TRUE
    /\ bus' = << >>
    /\ pipe_state' = "NULL"
    /\ \E r \in StateChangeReturns :
          /\ reset_result' = r
          /\ exc' = IF r = "FAILURE"
                    THEN ScannerError([t |-> "reset", of |-> r])
                    ELSE exc
    /\ reset_calls' = reset_calls + 1
    /\ pc' = "f60"
    /\ UNCHANGED <<timeout_ms, uri, scan_uri, result, elapsed, ctags, message,
                   tags, duration, outcome, consumed, posted, query_raw,
                   normVars, posted_log>>

Reset ==
    /\ pc = "r58"
    /\ flushing' = TRUE
    /\ bus' = << >>
    /\ pipe_state' = "NULL"
    /\ \E r \in StateChangeReturns : reset_result' = r
    /\ reset_calls' = reset_calls + 1
    /\ pc' = "f60"
    /\ UNCHANGED <<timeout_ms, uri, scan_uri, result, elapsed, ctags, message,
                   tags, duration, exc, outcome, consumed, posted, query_raw,
                   normVars,
                   posted_log>>

\* The end of the finally clause: re-raise the exception of the try block,
\* or return tags, duration.
Finish_SwallowsError ==
    /\ pc = "f60"
    /\ outcome' = [kind |-> "return", tags |-> tags, duration |-> duration]
    /\ pc' = "returned"
    /\ UNCHANGED <<timeout_ms, flushing, bus, pipe_state, uri, scan_uri,
                   result, elapsed, ctags, message, tags, duration, exc,
                   reset_calls, consumed, posted, query_raw, normVars,
                   posted_log, reset_result>>

Finish ==
    /\ pc = "f60"
    /\ outcome' = IF exc = NoExc
                  THEN [kind |-> "return", tags |-> tags, duration |-> duration]
                  ELSE [kind |-> "raise", exc |-> exc]
    /\ pc' = "returned"
    /\ UNCHANGED <<timeout_ms, flushing, bus, pipe_state, uri, scan_uri,
                   result, elapsed, ctags, message, tags, duration, exc,
                   reset_calls, consumed, posted, query_raw, normVars,
                   posted_log, reset_result>>

\* A thread of the pipeline posts a message; a flushing bus drops it.
Post(m) ==
    /\ ~flushing
    /\ posted < MaxPosts
    /\ bus' = Append(bus, m)
    /\ posted' = posted + 1
    /\ posted_log' = Append(posted_log, m)
    /\ UNCHANGED <<timeout_ms, flushing, pipe_state, uri, pc, scan_uri, result,
                   elapsed, ctags, message, tags, duration, exc, outcome,
                   reset_calls, consumed, query_raw, normVars,
                   reset_result>>

\* A millisecond passes while _collect runs. Past the deadline the loop test
\* gives the same answer whatever the clock reads, so the clock stops there.
Tick ==
    /\ pc \in CollectPcs
    /\ elapsed < timeout_ms
    /\ elapsed' = elapsed + 1
    /\ UNCHANGED <<timeout_ms, flushing, bus, pipe_state, uri, pc, scan_uri,
                   result, ctags, message, tags, duration, exc, outcome,
                   reset_calls, consumed, posted, query_raw, normVars,
                   posted_log, reset_result>>

Next ==
    \/ \E u \in URIs : Scan(u)
    \/ SetupReady
    \/ SetupUri
    \/ SetupUnflush
    \/ SetupPaused
    \/ SetupPlaying
    \/ CollectStart
    \/ CollectLoop
    \/ CollectPending
    \/ CollectPop
    \/ CollectDispatch
    \/ QueryDuration
    \/ Reset
    \/ Finish
    \/ \E m \in Messages : Post(m)
    \/ Tick

Spec == Init /\ [][Next]_vars

(***************************************************************************)
(* The Scanner on a pipeline that may post without end. The histories of   *)
(* the messages posted and popped are not kept here, which leaves the      *)
(* state space finite; the bus holds at most MaxBus messages at a time.    *)
(***************************************************************************)
\* _collect: message = self._bus.pop()
CollectPopLive ==
    /\ pc = "c81"
    /\ bus # << >>
    /\ message' = Head(bus)
    /\ bus' = Tail(bus)
    /\ pc' = "c83"
    /\ UNCHANGED <<timeout_ms, flushing, pipe_state, uri, scan_uri, result,
                   elapsed, ctags, tags, duration, exc, outcome, reset_calls,
                   consumed, posted, query_raw, normVars,
                   posted_log, reset_result>>

\* A thread of the pipeline posts a message; a flushing bus drops it.
PostLive(m) ==
    /\ ~flushing
    /\ Len(bus) < MaxBus
    /\ bus' = Append(bus, m)
    /\ UNCHANGED <<timeout_ms, flushing, pipe_state, uri, pc, scan_uri, result,
                   elapsed, ctags, message, tags, duration, exc, outcome,
                   reset_calls, consumed, posted, query_raw, normVars,
                   posted_log, reset_result>>

\* The statements of scan(): the thread that called it runs them one after
\* the other, none of them waits.
ScanStepLive ==
    \/ SetupReady
    \/ SetupUri
    \/ SetupUnflush
    \/ SetupPaused
    \/ SetupPlaying
    \/ CollectStart
    \/ CollectLoop
    \/ CollectPending
    \/ CollectPopLive
    \/ CollectDispatch
    \/ QueryDuration
    \/ Reset
    \/ Finish

NextLive ==
    \/ \E u \in URIs : Scan(u)
    \/ ScanStepLive
    \/ \E m \in Messages : PostLive(m)
    \/ Tick

\* A scan in progress keeps running and the wall clock keeps advancing.
SpecLive ==
    Init /\ [][NextLive]_vars /\ WF_vars(ScanStepLive) /\ WF_vars(Tick)

(***************************************************************************)
(* The tag names of GStreamer that tags_to_track reads.                    *)
(***************************************************************************)
TAG_COMPOSER == "composer"
TAG_PERFORMER == "performer"
TAG_ARTIST == "artist"
TAG_ALBUM_ARTIST == "album-artist"
TAG_GENRE == "genre"
TAG_TITLE == "title"
TAG_ORGANIZATION == "organization"
TAG_LOCATION == "location"
TAG_COPYRIGHT == "copyright"
TAG_TRACK_NUMBER == "track-number"
TAG_ALBUM_VOLUME_NUMBER == "album-disc-number"
TAG_BITRATE == "bitrate"
TAG_ALBUM == "album"
TAG_TRACK_COUNT == "track-count"
TAG_ALBUM_VOLUME_COUNT == "album-disc-count"
TAG_DATE == "date"

\* artist_id=None: None is the key of no tag dictionary.
NoKey == "None"

NameKeys == {TAG_COMPOSER, TAG_PERFORMER, TAG_ARTIST, TAG_ALBUM_ARTIST}
IdKeys == {"musicbrainz-artistid", "musicbrainz-albumartistid"}
TextKeys ==
    {TAG_GENRE, TAG_TITLE, TAG_ORGANIZATION, "comment", TAG_LOCATION,
     TAG_COPYRIGHT, TAG_ALBUM, "musicbrainz-trackid", "musicbrainz-albumid"}
IntKeys ==
    {TAG_TRACK_NUMBER, TAG_ALBUM_VOLUME_NUMBER, TAG_BITRATE, TAG_TRACK_COUNT,
     TAG_ALBUM_VOLUME_COUNT}
DateKeys == {TAG_DATE}

TagKeys == NameKeys \cup IdKeys \cup TextKeys \cup IntKeys \cup DateKeys

\* datetime.date(year, month, day)
PyDate(y, m, d) == [t |-> "date", year |-> y, month |-> m, day |-> d]

(***************************************************************************)
(* The value lists a tag of each kind is given in the inputs.              *)
(***************************************************************************)
NameLists ==
    << << >>,
       <<PyStr("A")>>,
       <<PyStr("A"), PyStr("B")>>,
       <<PyStr("B"), PyStr("A")>> >>

IdLists ==
    << << >>,
       <<PyStr("id-1")>>,
       <<PyStr("id-2"), PyStr("id-1")>>,
       <<PyStr("id-1"), PyStr("id-2")>> >>

TextLists ==
    << << >>,
       <<PyStr("")>>,
       <<PyStr("T")>>,
       <<PyStr("T"), PyStr("U")>> >>

IntLists ==
    << << >>,
       <<PyInt(0)>>,
       <<PyInt(7)>>,
       <<PyInt(7), PyInt(0)>> >>

DateLists ==
    << << >>,
       <<PyNone>>,
       <<PyDate(2015, 3, 7)>>,
       <<PyDate(2015, 3, 7), PyNone>> >>

ValueLists(k) ==
    CASE k \in NameKeys -> NameLists
      [] k \in IdKeys -> IdLists
      [] k \in TextKeys -> TextLists
      [] k \in IntKeys -> IntLists
      [] k \in DateKeys -> DateLists

RECURSIVE KeySets(_)
\* The sets of at most n tag names.
KeySets(n) ==
    IF n = 0 THEN {{}}
    ELSE LET P == KeySets(n - 1)
         IN  P \cup {K \cup {k} : K \in P, k \in TagKeys}

\* Whether d is the tag dictionary that gives each name k of K the c[k]-th
\* value list of its kind.
IsInput(d, K, c) == d = [k \in K |-> ValueLists(k)[c[k]]]

(***************************************************************************)
(* Python's operations on these values.                                    *)
(***************************************************************************)
IndexError == [t |-> "IndexError"]

\* bool(v)
Truthy(v) ==
    CASE v.t = "None" -> FALSE
      [] v.t = "str" -> v.v # ""
      [] v.t = "int" -> v.v # 0
      [] v.t = "list" -> v.v # << >>
      [] OTHER -> TRUE

\* tags.get(key, default), the value being a list
Get(d, key, default) == IF key \in DOMAIN d THEN d[key] ELSE default

\* list[0]
Item0(list) == IF list = << >> THEN IndexError ELSE list[1]

RECURSIVE Join(_)
\* '; '.join(list)
Join(list) ==
    IF list = << >> THEN ""
    ELSE IF Len(list) = 1 THEN list[1].v
    ELSE list[1].v \o "; " \o Join(Tail(list))

RECURSIVE StrOf(_)
\* The string of a character sequence.
StrOf(chars) == IF chars = << >> THEN "" ELSE chars[1] \o StrOf(Tail(chars))

RECURSIVE ZeroPad(_, _)
\* '%0wd': digits padded with zeros to width w.
ZeroPad(chars, w) ==
    IF Len(chars) >= w THEN chars ELSE ZeroPad(<<"0">> \o chars, w)

\* date.isoformat(): YYYY-MM-DD
isoformat(d) ==
    StrOf(ZeroPad(FormatD(d.year), 4)) \o "-"
        \o StrOf(ZeroPad(FormatD(d.month), 2)) \o "-"
        \o StrOf(ZeroPad(FormatD(d.day), 2))

\* Artist(name=..., musicbrainz_id=...); musicbrainz_id defaults to None.
Artist(name, musicbrainz_id) ==
    [t |-> "Artist", name |-> name, musicbrainz_id |-> musicbrainz_id]

\* Album(**kwargs), Track(**kwargs): the fields given; the others default.
Album(kwargs) == [t |-> "Album", fields |-> kwargs]
Track(kwargs) == [t |-> "Track", fields |-> kwargs]

(***************************************************************************)
(* _artists and tags_to_track.                                             *)
(***************************************************************************)
_artists_IdsByPosition(d, artist_name, artist_id) ==
    IF Get(d, artist_name, << >>) = << >> THEN PyNone
    ELSE IF artist_id \in DOMAIN d /\ Len(d[artist_id]) = Len(d[artist_name])
    THEN PyList([i \in 1..Len(d[artist_name]) |->
                    Artist(d[artist_name][i], d[artist_id][i])])
    ELSE PyList([i \in 1..Len(d[artist_name]) |->
                    Artist(d[artist_name][i], PyNone)])

_artists(d, artist_name, artist_id) ==
    IF Get(d, artist_name, << >>) = << >> THEN PyNone
    ELSE IF Len(d[artist_name]) = 1 /\ artist_id \in DOMAIN d
    THEN LET id == Item0(d[artist_id])
         IN  IF id.t = "IndexError" THEN IndexError
             ELSE PyList(<<Artist(d[artist_name][1], id)>>)
    ELSE PyList([i \in 1..Len(d[artist_name]) |->
                    Artist(d[artist_name][i], PyNone)])

\* tags.get(key, [None])[0]
First(d, key) == Item0(Get(d, key, <<PyNone>>))

\* '; '.join(tags.get(key, []))
JoinTag(d, key) == Join(Get(d, key, << >>))

\* track_kwargs['name']: the joined titles, else the joined organizations.
track_name(d) ==
    LET name == JoinTag(d, TAG_TITLE)
    IN  IF name # "" THEN name ELSE JoinTag(d, TAG_ORGANIZATION)

\* track_kwargs['comment']: the joined comments, else the joined locations,
\* else the joined copyrights.
track_comment_CopyrightFirst(d) ==
    LET comment == JoinTag(d, "comment")
        second == IF comment # "" THEN comment ELSE JoinTag(d, TAG_COPYRIGHT)
    IN  IF second # "" THEN second ELSE JoinTag(d, TAG_LOCATION)

track_comment(d) ==
    LET comment == JoinTag(d, "comment")
        second == IF comment # "" THEN comment ELSE JoinTag(d, TAG_LOCATION)
    IN  IF second # "" THEN second ELSE JoinTag(d, TAG_COPYRIGHT)

\* track_kwargs before the empty values are cleared out.
track_kwargs(d) ==
    LET base ==
            [composers |-> _artists(d, TAG_COMPOSER, NoKey),
             performers |-> _artists(d, TAG_PERFORMER, NoKey),
             artists |-> _artists(d, TAG_ARTIST, "musicbrainz-artistid"),
             genre |-> PyStr(JoinTag(d, TAG_GENRE)),
             name |-> PyStr(track_name(d)),
             comment |-> PyStr(track_comment(d)),
             track_no |-> First(d, TAG_TRACK_NUMBER),
             disc_no |-> First(d, TAG_ALBUM_VOLUME_NUMBER),
             bitrate |-> First(d, TAG_BITRATE),
             musicbrainz_id |-> First(d, "musicbrainz-trackid")]
        dates == Get(d, TAG_DATE, << >>)
    IN  IF dates # << >> /\ Truthy(dates[1])
        THEN [k \in DOMAIN base \cup {"date"} |->
                 IF k = "date" THEN PyStr(isoformat(dates[1])) ELSE base[k]]
        ELSE base

\* album_kwargs before the empty values are cleared out.
album_kwargs(d) ==
    [artists |-> _artists(d, TAG_ALBUM_ARTIST, "musicbrainz-albumartistid"),
     name |-> First(d, TAG_ALBUM),
     num_tracks |-> First(d, TAG_TRACK_COUNT),
     num_discs |-> First(d, TAG_ALBUM_VOLUME_COUNT),
     musicbrainz_id |-> First(d, "musicbrainz-albumid")]

\* {k: v for k, v in kwargs.items() if v}
ClearEmpty(kwargs) ==
    [k \in {f \in DOMAIN kwargs : Truthy(kwargs[f])} |-> kwargs[k]]

\* Whether computing one of the values raised IndexError.
Raised(kwargs) == \E k \in DOMAIN kwargs : kwargs[k].t = "IndexError"

\* track_kwargs['album'] = Album(**album_kwargs)
WithAlbum(kwargs, album) ==
    [k \in DOMAIN kwargs \cup {"album"} |->
        IF k = "album" THEN album ELSE kwargs[k]]

tags_to_track(d) ==
    LET tk == track_kwargs(d)
        ak == album_kwargs(d)
    IN  IF Raised(tk) \/ Raised(ak) THEN IndexError
        ELSE Track(WithAlbum(ClearEmpty(tk), Album(ClearEmpty(ak))))

(***************************************************************************)
(* SpecNorm: tags_to_track and _artists called on a tag dictionary.        *)
(***************************************************************************)
\* The default of Scanner.__init__'s timeout.
DefaultTimeout == 1000

\* The (artist_name, artist_id) arguments tags_to_track calls _artists with.
ArtistCallSites ==
    { <<TAG_COMPOSER, NoKey>>,
      <<TAG_PERFORMER, NoKey>>,
      <<TAG_ARTIST, "musicbrainz-artistid">>,
      <<TAG_ALBUM_ARTIST, "musicbrainz-albumartistid">> }

InitNorm ==
    /\ timeout_ms = DefaultTimeout
    /\ flushing = TRUE
    /\ bus = << >>
    /\ pipe_state = "NULL"
    /\ uri = "none"
    /\ pc = "idle"
    /\ scan_uri = "none"
    /\ result = "none"
    /\ elapsed = 0
    /\ ctags = EmptyDict
    /\ message = NoMessage
    /\ tags = PyNone
    /\ duration = PyNone
    /\ exc = NoExc
    /\ outcome = NoOutcome
    /\ reset_calls = 0
    /\ consumed = << >>
    /\ posted = 0
    /\ posted_log = << >>
    /\ reset_result = "none"
    /\ query_raw = NotQueried
    /\ \E K \in KeySets(MaxKeys) :
          \E c \in [K -> DOMAIN NameLists] : IsInput(ntags, K, c)
    /\ track = NotCalled
    /\ artists_call = NotCalled

\* Nothing has been called on ntags yet.
Uncalled == track = NotCalled /\ artists_call = NotCalled

\* _artists(ntags, artist_name, artist_id) is called.
ArtistsCall(artist_name, artist_id) ==
    /\ Uncalled
    /\ artists_call' = [t |-> "called",
                        artist_name |-> artist_name,
                        artist_id |-> artist_id,
                        returned |-> _artists(ntags, artist_name, artist_id)]
    /\ track' = NotCalled
    /\ UNCHANGED <<scanVars, ntags>>

\* tags_to_track(ntags) is called.
TagsToTrackCall ==
    /\ Uncalled
    /\ track' = tags_to_track(ntags)
    /\ artists_call' = NotCalled
    /\ UNCHANGED <<scanVars, ntags>>

NextNorm ==
    \/ \E site \in ArtistCallSites : ArtistsCall(site[1], site[2])
    \/ TagsToTrackCall

SpecNorm == InitNorm /\ [][NextNorm]_vars

(***************************************************************************)
(* Properties of the Scanner (under Spec).                                 *)
(***************************************************************************)
\* The events that end polling.
Terminal(m) ==
    \/ m.type \in {"ERROR", "EOS"}
    \/ m.type = "ASYNC_DONE" /\ m.src = "pipe"

Max(S) == CHOOSE x \in S : \A y \in S : y <= x

\* The tag events among evs that carry the tag name.
EventsWith(evs, name) ==
    {i \in DOMAIN evs : evs[i].type = "TAG" /\ name \in DOMAIN evs[i].taglist}

\* Per tag name, the values of the last event of evs that carries the name.
LastWins(evs) ==
    LET names == UNION {DOMAIN evs[i].taglist :
                           i \in {j \in DOMAIN evs : evs[j].type = "TAG"}}
    IN  [n \in names |->
            convert_taglist(evs[Max(EventsWith(evs, n))].taglist)[n]]

\* scan() is past its try block.
PastTry == pc \in {"f60", "returned"}

(* C1: whatever the outcome of a scan, _reset is called exactly once in it,
   after the try block and before scan returns or raises: no call before
   the finally clause, one call once the scan has returned or raised, and
   the bus is then flushing and the pipeline in its NULL state. *)
C1_ResetExactlyOnce ==
    /\ reset_calls = IF PastTry THEN 1 ELSE 0
    /\ outcome # NoOutcome => pc = "returned"
    /\ pc = "returned" =>
          /\ outcome.kind \in {"return", "raise"}
          /\ flushing
          /\ pipe_state = "NULL"

\* A scan ended by an error event has raised, after its one call of _reset.
C1_Witness ==
    /\ pc = "returned"
    /\ outcome.kind = "raise"
    /\ outcome.exc.message.t = "decoded"
    /\ reset_calls = 1

(* C2: an error event ends the scan at once with the ScannerError of its
   decoded text: it is the last event popped, whatever tags were collected
   and whatever is still pending on the bus, and the error is what scan
   raises. *)
C2_ErrorTerminates ==
    \A i \in DOMAIN consumed :
        consumed[i].type = "ERROR" =>
            /\ i = Len(consumed)
            /\ pc \in {"c83", "r58", "f60", "returned"}
            /\ pc # "c83" =>
                  exc = ScannerError(locale_decode(consumed[i].gerror))
            /\ pc = "returned" =>
                  outcome = [kind |-> "raise",
                             exc |-> ScannerError(
                                        locale_decode(consumed[i].gerror))]

\* An error event was dispatched after a tag event, with an end-of-stream
\* still pending on the bus.
C2_Witness ==
    /\ pc = "r58"
    /\ exc.t = "ScannerError"
    /\ exc.message.t = "decoded"
    /\ \E i \in DOMAIN consumed : consumed[i].type = "TAG"
    /\ \E j \in DOMAIN bus : bus[j].type = "EOS"

(* C3: a scan in which no terminal event was popped (in particular one in
   which none arrived before the deadline) raises the ScannerError whose
   text contains the configured timeout, and _reset has been called when
   the error reaches the caller. *)
C3_TimeoutRaises ==
    (pc = "returned" /\ \A i \in DOMAIN consumed : ~Terminal(consumed[i])) =>
        /\ outcome.kind = "raise"
        /\ outcome.exc.t = "ScannerError"
        /\ outcome.exc.message.t = "text"
        /\ Contains(outcome.exc.message.chars, FormatD(timeout_ms))
        /\ reset_calls = 1
        /\ flushing

\* A scan with a timeout above zero popped events, none terminal, and timed out.
C3_Witness ==
    /\ pc = "returned"
    /\ timeout_ms > 0
    /\ consumed # << >>
    /\ \A i \in DOMAIN consumed : ~Terminal(consumed[i])
    /\ outcome.kind = "raise"

(* C4: the tags of a successful scan map each tag name to exactly the values
   of the last popped tag event carrying that name (replaced, not merged),
   and the names are those of all popped tag events; the same holds of the
   tags collected so far whenever no popped event awaits its dispatch. *)
C4_LastWriteWins ==
    /\ pc \in {"c78", "c79", "c81"} => ctags = LastWins(consumed)
    /\ tags.t = "dict" => tags.v = LastWins(consumed)
    /\ (pc = "returned" /\ outcome.kind = "return") =>
          outcome.tags = PyDict(LastWins(consumed))

\* A successful scan popped two tag events carrying the same name with
\* different values, one of them carrying a second name.
C4_Witness ==
    /\ pc = "returned"
    /\ outcome.kind = "return"
    /\ \E i, j \in DOMAIN consumed :
          /\ i < j
          /\ consumed[i].type = "TAG"
          /\ consumed[j].type = "TAG"
          /\ consumed[i].taglist # consumed[j].taglist
          /\ DOMAIN consumed[i].taglist # DOMAIN consumed[j].taglist

\* The step that dispatches the popped message.
DispatchStep == pc = "c83" /\ pc' # "c83"

(* C5: dispatching an async-done event of a sub-element leaves the scan
   polling and the collected tags unchanged; dispatching an async-done event
   of the top-level pipeline ends polling successfully with the tags
   collected so far. *)
C5_AsyncDone ==
    [][(DispatchStep /\ message.type = "ASYNC_DONE") =>
          IF message.src = "pipe"
          THEN /\ pc' = "q56"
               /\ tags' = PyDict(ctags)
               /\ exc' = NoExc
          ELSE /\ pc' = "c78"
               /\ ctags' = ctags
               /\ tags' = PyNone
               /\ exc' = NoExc]_vars

\* An async-done event of a sub-element was dispatched after tags were
\* collected, and the scan is still polling with them.
C5_Witness ==
    /\ pc = "c78"
    /\ consumed # << >>
    /\ consumed[Len(consumed)].type = "ASYNC_DONE"
    /\ consumed[Len(consumed)].src # "pipe"
    /\ ctags # EmptyDict

(* C6: an end-of-stream event always ends polling successfully: it is the
   last event popped, no error is raised, and the tags scan returns are
   those accumulated from the tag events popped before it, whatever is
   still pending on the bus behind it. *)
C6_EndOfStream ==
    \A i \in DOMAIN consumed :
        consumed[i].type = "EOS" =>
            /\ i = Len(consumed)
            /\ pc \in {"c83", "q56", "r58", "f60", "returned"}
            /\ pc # "c83" =>
                  /\ exc = NoExc
                  /\ tags = PyDict(LastWins(SubSeq(consumed, 1, i - 1)))
            /\ pc = "returned" =>
                  /\ outcome.kind = "return"
                  /\ outcome.tags = PyDict(LastWins(SubSeq(consumed, 1, i - 1)))

\* Polling was ended by an end-of-stream event while a tag event carrying a
\* name not collected was pending behind it.
C6_Witness ==
    /\ pc = "r58"
    /\ consumed # << >>
    /\ consumed[Len(consumed)].type = "EOS"
    /\ tags.t = "dict"
    /\ \E j \in DOMAIN bus :
          /\ bus[j].type = "TAG"
          /\ ~(DOMAIN bus[j].taglist \subseteq DOMAIN tags.v)

(* C7: the duration of a successful scan is None when the duration query
   raised QueryError or answered a negative value, and otherwise the whole
   number d of milliseconds with d * MSECOND <= raw < (d + 1) * MSECOND (so
   0 for a raw duration below one millisecond); and a scan whose duration
   was queried never ends in an error. *)
C7_Duration ==
    /\ query_raw # NotQueried =>
          /\ exc = NoExc
          /\ pc = "returned" => outcome.kind = "return"
    /\ (pc = "returned" /\ outcome.kind = "return") =>
          /\ query_raw # NotQueried
          /\ IF query_raw.t = "QueryError" \/ query_raw.v < 0
             THEN outcome.duration = PyNone
             ELSE /\ outcome.duration.t = "int"
                  /\ outcome.duration.v * MSECOND <= query_raw.v
                  /\ query_raw.v < (outcome.duration.v + 1) * MSECOND

\* A successful scan whose query answered a raw duration above zero and
\* below one millisecond returned the duration 0.
C7_Witness ==
    /\ pc = "returned"
    /\ outcome.kind = "return"
    /\ query_raw.t = "int"
    /\ query_raw.v > 0
    /\ outcome.duration = PyInt(0)

(***************************************************************************)
(* Properties of _artists and tags_to_track (under SpecNorm).              *)
(***************************************************************************)
(* C8: when the name tag has exactly one value and the id tag is a key of
   the dictionary, however many values it holds (none included), _artists
   returns exactly one Artist, of that name, whose identifier is the first
   value of the id tag. *)
C8_OneArtistWithId ==
    artists_call.t = "called" =>
        LET names == Get(ntags, artists_call.artist_name, << >>)
            id == artists_call.artist_id
            r == artists_call.returned
        IN  (Len(names) = 1 /\ id \in DOMAIN ntags) =>
                /\ r.t = "list"
                /\ Len(r.v) = 1
                /\ r.v[1].name = names[1]
                /\ ntags[id] # << >> => r.v[1].musicbrainz_id = ntags[id][1]

(* C9: when the name tag is absent or empty _artists returns None; when it
   has two or more values, or the id tag is no key of the dictionary (as in
   the calls for composers and performers), it returns one Artist per name
   value, in the order of the names, each without identifier. *)
C9_ArtistsWithoutId ==
    artists_call.t = "called" =>
        LET names == Get(ntags, artists_call.artist_name, << >>)
            id == artists_call.artist_id
            r == artists_call.returned
        IN  /\ artists_call.artist_name \in {TAG_COMPOSER, TAG_PERFORMER} =>
                  id \notin DOMAIN ntags
            /\ names = << >> => r = PyNone
            /\ (Len(names) >= 2 \/ (names # << >> /\ id \notin DOMAIN ntags)) =>
                  /\ r.t = "list"
                  /\ Len(r.v) = Len(names)
                  /\ \A i \in 1..Len(names) : r.v[i] = Artist(names[i], PyNone)

\* _artists was called with two names and an id list of the same length.
C9_Witness ==
    /\ artists_call.t = "called"
    /\ artists_call.artist_id \in DOMAIN ntags
    /\ Len(Get(ntags, artists_call.artist_name, << >>)) = 2
    /\ Len(ntags[artists_call.artist_id]) = 2
    /\ artists_call.returned.t = "list"
    /\ Len(artists_call.returned.v) = 2

(* C10: for every tag dictionary tags_to_track returns a Track whose album
   is set; no field of the Track or of its Album holds an empty value
   (empty string, empty list, zero, None): such fields are left out; and
   for the empty dictionary the Track holds its album only and the Album no
   field at all. *)
C10_EmptyFieldsDropped ==
    track # NotCalled =>
        /\ track.t = "Track"
        /\ "album" \in DOMAIN track.fields
        /\ track.fields["album"].t = "Album"
        /\ \A k \in DOMAIN track.fields : Truthy(track.fields[k])
        /\ \A k \in DOMAIN track.fields["album"].fields :
              Truthy(track.fields["album"].fields[k])
        /\ \A k \in DOMAIN track_kwargs(ntags) :
              Truthy(track_kwargs(ntags)[k]) =>
                  /\ k \in DOMAIN track.fields
                  /\ track.fields[k] = track_kwargs(ntags)[k]
        /\ ntags = EmptyDict =>
              /\ DOMAIN track.fields = {"album"}
              /\ DOMAIN track.fields["album"].fields = {}

\* The first string of list that is not empty, "" when there is none.
FirstNonEmpty(list) ==
    IF \A i \in DOMAIN list : list[i] = "" THEN ""
    ELSE list[CHOOSE i \in DOMAIN list :
                 /\ list[i] # ""
                 /\ \A j \in 1..(i - 1) : list[j] = ""]

\* What the field of a Track must be for the candidates of its chain.
FieldIsFirstNonEmpty(fields, field, candidates) ==
    IF FirstNonEmpty(candidates) = ""
    THEN field \notin DOMAIN fields
    ELSE /\ field \in DOMAIN fields
         /\ fields[field] = PyStr(FirstNonEmpty(candidates))

(* C11: in the Track tags_to_track returns, name is the first non-empty of
   the joined titles and the joined organizations, and comment the first
   non-empty of the joined comments, locations and copyrights, the values
   of a tag being joined with "; "; a later tag of the chain is not used
   when an earlier one joins to a non-empty string, and the field is absent
   when every candidate is empty. *)
C11_FallbackChains ==
    track.t = "Track" =>
        /\ FieldIsFirstNonEmpty(track.fields, "name",
              <<JoinTag(ntags, TAG_TITLE), JoinTag(ntags, TAG_ORGANIZATION)>>)
        /\ FieldIsFirstNonEmpty(track.fields, "comment",
              <<JoinTag(ntags, "comment"), JoinTag(ntags, TAG_LOCATION),
                JoinTag(ntags, TAG_COPYRIGHT)>>)
        /\ (TAG_TITLE \in DOMAIN ntags
               /\ ntags[TAG_TITLE] = <<PyStr("T"), PyStr("U")>>) =>
              track.fields["name"] = PyStr("T; U")
        /\ (TAG_LOCATION \in DOMAIN ntags
               /\ ntags[TAG_LOCATION] = <<PyStr("T"), PyStr("U")>>
               /\ JoinTag(ntags, "comment") = "") =>
              track.fields["comment"] = PyStr("T; U")

\* Locations and copyrights both join to non-empty strings, there is no
\* comment tag, and the comment of the Track is the joined locations.
C11_Witness ==
    /\ track.t = "Track"
    /\ TAG_LOCATION \in DOMAIN ntags
    /\ TAG_COPYRIGHT \in DOMAIN ntags
    /\ ntags[TAG_LOCATION] = <<PyStr("T"), PyStr("U")>>
    /\ ntags[TAG_COPYRIGHT] = <<PyStr("T")>>
    /\ track.fields["comment"] = PyStr("T; U")

(***************************************************************************)
(* Properties of the Scanner's life cycle (under Spec).                    *)
(***************************************************************************)
\* No call of scan() is in progress.
NoScan == pc \in {"idle", "returned"}

\* m ends polling successfully.
Success(m) ==
    \/ m.type = "EOS"
    \/ m.type = "ASYNC_DONE" /\ m.src = "pipe"

(* C12: whenever no scan is in progress, after construction and after any
   number of scans, the bus is flushing, nothing is pending on it and the
   pipeline is in its NULL state; a scan un-flushes a bus that holds
   nothing, starts polling with an empty tag dictionary, and every message
   on its bus or popped by it was posted during this scan, so that its
   tags come from the events of this scan alone. *)
C12_CleanBetweenScans ==
    /\ NoScan =>
          /\ flushing
          /\ bus = << >>
          /\ pipe_state = "NULL"
    /\ pc \in {"s64", "s65", "s66"} =>
          /\ flushing
          /\ bus = << >>
          /\ consumed = << >>
    /\ (pc = "c78" /\ consumed = << >>) => ctags = EmptyDict
    /\ ~(NoScan \/ pc = "f60") => consumed \o bus = posted_log
    /\ (pc = "returned" /\ outcome.kind = "return") =>
          /\ Len(consumed) <= Len(posted_log)
          /\ outcome.tags =
                PyDict(LastWins(SubSeq(posted_log, 1, Len(consumed))))

\* A later scan starts: the URI of an earlier scan is still set, the bus is
\* flushing and holds nothing.
C12_Witness ==
    /\ pc = "s64"
    /\ uri # "none"
    /\ flushing
    /\ bus = << >>
    /\ pipe_state = "NULL"

(* C13: _setup requests READY, then assigns the URI, then un-flushes the
   bus, then requests PAUSED, in this order; it then requests PLAYING if
   and only if the PAUSED request returned NO_PREROLL; and no message is
   popped before the bus was un-flushed in the same scan. *)
C13_SetupOrder ==
    /\ [](/\ pc = "s64" => (flushing /\ pipe_state = "NULL")
          /\ pc = "s65" => (flushing /\ pipe_state = "READY")
          /\ pc = "s66" =>
                (flushing /\ pipe_state = "READY" /\ uri = scan_uri)
          /\ pc = "s67" =>
                (~flushing /\ pipe_state = "READY" /\ uri = scan_uri)
          /\ pc = "s68" =>
                /\ ~flushing
                /\ pipe_state = "PAUSED"
                /\ uri = scan_uri
                /\ result \in StateChangeReturns
          /\ pc = "c74" => pipe_state \in {"PAUSED", "PLAYING"}
          /\ pc \in {"s64", "s65", "s66", "s67", "s68", "c74"} =>
                consumed = << >>)
    /\ [][(pc = "s68" /\ pc' # "s68") =>
             /\ pc' = "c74"
             /\ pipe_state' = "PLAYING" <=> result = "NO_PREROLL"
             /\ pipe_state' = "PAUSED" <=> result # "NO_PREROLL"]_vars
    /\ [][consumed' # consumed /\ consumed' # << >> =>
             (~flushing /\ ~flushing')]_vars

\* The PAUSED request returned NO_PREROLL and PLAYING was requested before
\* polling starts.
C13_Witness ==
    /\ pc = "c74"
    /\ pipe_state = "PLAYING"
    /\ ~flushing
    /\ uri = scan_uri

(* C14: the duration is queried only in a scan whose polling ended
   successfully, after polling ended and before _reset puts the pipeline
   in its NULL state, and it is queried in every such scan; a scan that
   ends in an error or a timeout queries no duration. *)
C14_QueryOnlyOnSuccess ==
    /\ [](/\ query_raw # NotQueried =>
                /\ exc = NoExc
                /\ tags.t = "dict"
                /\ consumed # << >>
                /\ Success(consumed[Len(consumed)])
                /\ pc \in {"r58", "f60", "returned"}
          /\ exc # NoExc => query_raw = NotQueried
          /\ (pc \in {"r58", "f60", "returned"} /\ exc = NoExc) =>
                query_raw # NotQueried
          /\ pc = "q56" =>
                /\ reset_calls = 0
                /\ pipe_state # "NULL"
                /\ consumed # << >>
                /\ Success(consumed[Len(consumed)]))
    /\ [][query_raw' # query_raw /\ query_raw' # NotQueried =>
             /\ pc = "q56"
             /\ pc' = "r58"
             /\ reset_calls' = 0
             /\ pipe_state' # "NULL"]_vars

\* The duration was queried after polling ended on an end-of-stream or
\* async-done event, and _reset has not run yet.
C14_Witness ==
    /\ pc = "r58"
    /\ query_raw # NotQueried
    /\ reset_calls = 0
    /\ pipe_state # "NULL"
    /\ tags.t = "dict"

\* scan() returned, or raised the error of an error event or the timeout.
Done == outcome.kind = "return"

Failed == outcome.kind = "raise" /\ outcome.exc.message.t = "decoded"

TimedOut == outcome.kind = "raise" /\ outcome.exc.message.t = "text"

\* m is a tag event or an event of a kind _collect does not look at.
TagOrOther(m) == m.type \in {"TAG", "OTHER"}

(* C16: dispatching a tag event or an event of a kind other than error,
   end-of-stream and async-done leaves the scan polling, with nothing
   raised and nothing returned, and an event of another kind leaves the
   collected tags unchanged; a scan during which only such events were
   posted raises the ScannerError of the timeout. *)
C16_NonTerminalsKeepPolling ==
    /\ [][(DispatchStep /\ TagOrOther(message)) =>
             /\ pc' = "c78"
             /\ exc' = NoExc
             /\ tags' = PyNone
             /\ message.type = "OTHER" => ctags' = ctags]_vars
    /\ []((pc = "returned"
             /\ \A i \in DOMAIN posted_log : TagOrOther(posted_log[i])) =>
            /\ TimedOut
            /\ outcome.exc = ScannerError(TimeoutText(timeout_ms))
            /\ Contains(outcome.exc.message.chars, FormatD(timeout_ms)))

\* A scan popped a tag event and an event of another kind, no event of a
\* terminal kind was posted, and it ended in the timeout error.
C16_Witness ==
    /\ pc = "returned"
    /\ TimedOut
    /\ \A i \in DOMAIN posted_log : TagOrOther(posted_log[i])
    /\ \E i \in DOMAIN consumed : consumed[i].type = "TAG"
    /\ \E i \in DOMAIN consumed : consumed[i].type = "OTHER"

(* C17: when the try block of scan raised a ScannerError (of an error event
   or of the timeout), that same ScannerError is what scan raises to its
   caller: _reset runs and replaces no pending error, whatever
   set_state(NULL) reports, a failure included. *)
C17_OriginalErrorObserved ==
    /\ [][(pc = "r58" /\ pc' # "r58") => (pc' = "f60" /\ exc' = exc)]_vars
    /\ [][(pc = "f60" /\ pc' # "f60" /\ exc # NoExc) =>
             outcome' = [kind |-> "raise", exc |-> exc]]_vars
    /\ [](pc = "returned" =>
            /\ (consumed # << >> /\ consumed[Len(consumed)].type = "ERROR") =>
                  outcome =
                     [kind |-> "raise",
                      exc |-> ScannerError(locale_decode(
                                 consumed[Len(consumed)].gerror))]
            /\ (\A i \in DOMAIN consumed : ~Terminal(consumed[i])) =>
                  outcome =
                     [kind |-> "raise",
                      exc |-> ScannerError(TimeoutText(timeout_ms))])

\* A scan ended by an error event raised its error although set_state(NULL)
\* reported a failure during _reset.
C17_Witness ==
    /\ pc = "returned"
    /\ Failed
    /\ reset_result = "FAILURE"
    /\ consumed # << >>
    /\ outcome.exc =
          ScannerError(locale_decode(consumed[Len(consumed)].gerror))

(* C18: scan returns (instead of raising) exactly when the last event
   popped is an end-of-stream or an async-done of the pipeline; what it
   then returns as tags is a dictionary, possibly empty, never None; when
   the last event popped is an error or none was terminal, scan raises and
   hands the caller no tags and no duration. *)
C18_ReturnIffSuccessEvent ==
    pc = "returned" =>
        /\ Done <=> (consumed # << >> /\ Success(consumed[Len(consumed)]))
        /\ Done =>
              /\ DOMAIN outcome = {"kind", "tags", "duration"}
              /\ outcome.tags # PyNone
              /\ outcome.tags.t = "dict"
        /\ ~Done =>
              /\ outcome.kind = "raise"
              /\ DOMAIN outcome = {"kind", "exc"}
              /\ outcome.exc.t = "ScannerError"

\* A scan whose only event was an end-of-stream or the async-done of the
\* pipeline returned an empty dictionary, not None.
C18_Witness ==
    /\ pc = "returned"
    /\ Done
    /\ Len(consumed) = 1
    /\ outcome.tags = PyDict(EmptyDict)

(* C19: the messages popped in a scan are, in order, the first messages
   posted in it, one being dispatched before the next is popped; at most
   one of them is of a terminal kind, the last one, and it decides the
   outcome; the messages behind it, an error behind an end-of-stream or
   async-done of the pipeline included, are never popped: the flush of
   _reset drops them. *)
C19_FirstTerminalDecides ==
    /\ Len(consumed) <= Len(posted_log)
    /\ consumed = SubSeq(posted_log, 1, Len(consumed))
    /\ \A i \in DOMAIN consumed : Terminal(consumed[i]) => i = Len(consumed)
    /\ IF pc = "c83"
       THEN consumed # << >> /\ message = consumed[Len(consumed)]
       ELSE message = NoMessage
    /\ PastTry => bus = << >>
    /\ pc = "returned" =>
          IF consumed # << >> /\ Terminal(consumed[Len(consumed)])
          THEN IF consumed[Len(consumed)].type = "ERROR"
               THEN Failed
               ELSE Done
          ELSE TimedOut

\* A scan returned although an error event was posted right behind the
\* event that ended it: the error was never popped.
C19_Witness ==
    /\ pc = "returned"
    /\ Done
    /\ Len(posted_log) > Len(consumed)
    /\ posted_log[Len(consumed) + 1].type = "ERROR"
    /\ bus = << >>

(* C20: the elapsed time is tested only by the loop test, before the bus is
   looked at: the loop body is entered only from a loop test that found the
   elapsed time below the timeout, a message is popped only in the loop
   body, and a popped message is dispatched by its kind whatever the clock
   reads by then; a loop test at or past the deadline raises the timeout
   error and pops nothing, whatever is pending; with a timeout of 0 no
   message is ever popped and the scan ends in the timeout error. *)
C20_DeadlineTestedAtLoopTop ==
    /\ [][(pc' = "c79" /\ pc # "c79") =>
             (pc = "c78" /\ elapsed < timeout_ms)]_vars
    /\ [][(pc' = "c81" /\ pc # "c81") => pc = "c79"]_vars
    /\ [][consumed' # consumed /\ consumed' # << >> =>
             (pc = "c81" /\ pc' = "c83")]_vars
    /\ [][(DispatchStep /\ elapsed >= timeout_ms) =>
             /\ message.type = "ERROR" =>
                   /\ pc' = "r58"
                   /\ exc' = ScannerError(locale_decode(message.gerror))
             /\ Success(message) => (pc' = "q56" /\ tags' = PyDict(ctags))
             /\ ~Terminal(message) =>
                   (pc' = "c78" /\ ctags' = CollectTags(ctags, message))]_vars
    /\ [][(pc = "c78" /\ pc' # "c78" /\ elapsed >= timeout_ms) =>
             /\ pc' = "r58"
             /\ exc' = ScannerError(TimeoutText(timeout_ms))
             /\ bus' = bus
             /\ consumed' = consumed]_vars
    /\ [](timeout_ms = 0 =>
            /\ consumed = << >>
            /\ pc \notin {"c79", "c81", "c83", "q56"}
            /\ pc = "returned" => TimedOut)

\* With a timeout of 0 the timeout error was raised while an event of a
\* terminal kind was the next one pending on the bus.
C20_Witness ==
    /\ pc = "r58"
    /\ timeout_ms = 0
    /\ exc = ScannerError(TimeoutText(0))
    /\ bus # << >>
    /\ Terminal(bus[1])
    /\ consumed = << >>

(***************************************************************************)
(* Termination (under SpecLive).                                           *)
(***************************************************************************)
(* C15: with the wall clock advancing, every scan in progress eventually
   ends: it has returned or raised, in exactly one of the three ways done
   (returned), failed (the error of an error event) and timed out, the bus
   is flushing again and the pipeline NULL; this for every stream of
   messages, the empty one and one that never stops included. *)
C15_ScanTerminates ==
    (~NoScan) ~>
        /\ pc = "returned"
        /\ \/ Done /\ ~Failed /\ ~TimedOut
           \/ ~Done /\ Failed /\ ~TimedOut
           \/ ~Done /\ ~Failed /\ TimedOut
        /\ flushing
        /\ pipe_state = "NULL"

\* A scan with the longest timeout has ended in the timeout error and the
\* Scanner is idle again.
C15_Witness ==
    /\ pc = "returned"
    /\ TimedOut
    /\ timeout_ms = MaxTimeout
    /\ flushing
    /\ pipe_state = "NULL"

====
